---- MODULE Spec2Model ----
(***************************************************************************)
(* A model of nec2utils.py: the Model class that accumulates NEC2 cards    *)
(* (wires, arcs, transforms, excitations, loads) and renders a card stack. *)
(*                                                                         *)
(* A card is a record [card, I, F]: its two-letter name, its integer       *)
(* fields (each written by dec) and its float fields (each written by      *)
(* sci), in the order the source concatenates them.  A text (wires,        *)
(* transforms, transformBuffer, the result of getText) is the sequence of  *)
(* its cards; string concatenation += is sequence concatenation \o.        *)
(* Numeric inputs are integer valued.                                      *)
(***************************************************************************)
EXTENDS Integers, Sequences, FiniteSets, TLC

VARIABLES wires, transforms, wireRadius, tag,
          EX_tags, EX_angles, EX_segments,
          LD_tags, LD_segments, LD_r, LD_l,
          gpflag, transformBuffer, middle,
          lastCall, ret, loadCalls

vars == <<wires, transforms, wireRadius, tag, EX_tags, EX_angles, EX_segments,
          LD_tags, LD_segments, LD_r, LD_l, gpflag, transformBuffer, middle,
          lastCall, ret, loadCalls>>

\* The fields of a Model instance (everything but the call and its result).
fields == <<wires, transforms, wireRadius, tag, EX_tags, EX_angles, EX_segments,
            LD_tags, LD_segments, LD_r, LD_l, gpflag, transformBuffer, middle>>

(***************************************************************************)
(* Bounds of the model and the inputs the calls are drawn from.            *)
(***************************************************************************)
MaxTag == 2
MaxEX == 2
MaxLD == 2

InitRadii == {1}
Radii == {1234567}
Grounds == {0, 1}
WireSegments == {7}
SegLengths == {2}
Origin == <<0, 0, 0>>
WireEnds == {<<Origin, <<1, 0, 0>>>>}
AutosegEnds == {<<Origin, <<3, 4, 0>>>>}
ArcArgs == {[segments |-> 4, radius |-> 2, start |-> 0, end |-> 180,
             rotate |-> <<10, 20, 30>>, translate |-> <<1, 2, 3>>]}
Angles == {90}
LoadArgs == {<<5, 50>>}
Sweeps == {[start |-> 100, stepSize |-> 1, stepCount |-> 1]}

(***************************************************************************)
(* Field formatting.                                                       *)
(***************************************************************************)
Abs(x) == IF x < 0 THEN -x ELSE x

RECURSIVE Pow10(_)
Pow10(n) == IF n = 0 THEN 1 ELSE 10 * Pow10(n - 1)

RECURSIVE NumDigits(_)
NumDigits(x) == IF x < 10 THEN 1 ELSE 1 + NumDigits(x \div 10)

\* '%.6g' % f: f rounded to 6 significant digits, ties to even; float() and
\* '%s' then print that value.
sci(f) ==
    LET a == Abs(f)
        scale == Pow10(NumDigits(a) - 6)
        q == a \div scale
        r == a % scale
        up == (2 * r > scale) \/ (2 * r = scale /\ q % 2 = 1)
        rounded == (IF up THEN q + 1 ELSE q) * scale
    IN  IF a < 1000000 THEN f
        ELSE IF f < 0 THEN -rounded ELSE rounded

\* math.trunc of the quotient n / d (d > 0): toward zero.
Trunc(n, d) == IF n >= 0 THEN n \div d ELSE -((-n) \div d)

\* str(math.trunc(i))
dec(i) == Trunc(i, 1)

Card(name, ints, floats) == [card |-> name, I |-> ints, F |-> floats]

(***************************************************************************)
(* Low-level card emitters.                                                *)
(***************************************************************************)
gw(t, segments, x1, y1, z1, x2, y2, z2, radius) ==
    Card("GW", <<dec(t), dec(segments)>>,
         <<sci(x1), sci(y1), sci(z1), sci(x2), sci(y2), sci(z2), sci(radius)>>)

ga(t, segments, arcRadius, startAngle, endAngle, radius) ==
    LET notUsed == 0
    IN  Card("GA", <<dec(t), dec(segments)>>,
             <<sci(arcRadius), sci(startAngle), sci(endAngle), sci(radius),
               sci(notUsed), sci(notUsed), sci(notUsed)>>)

gm(rotX, rotY, rotZ, trX, trY, trZ, firstTag) ==
    LET tagIncrement == 0
        newStructures == 0
    IN  Card("GM", <<dec(tagIncrement), dec(newStructures)>>,
             <<sci(rotX), sci(rotY), sci(rotZ), sci(trX), sci(trY), sci(trZ),
               sci(firstTag * 1)>>)

ge == Card("GE", <<dec(gpflag)>>, <<>>)

\* The second float field, sci(.005), is held in thousandths.
gn(gtypeflag) ==
    Card("GN", <<dec(gtypeflag), dec(0), dec(0), dec(0)>>, <<sci(13), sci(5)>>)

fr(start, stepSize, stepCount) ==
    LET IFRQ == 0
        NFRQ == stepCount
        I3 == 0
        I4 == 0
    IN  Card("FR", <<dec(IFRQ), dec(NFRQ), dec(I3), dec(I4)>>,
             <<sci(start), sci(stepSize)>>)

\* F1 = cos(deg2rad(angle)), F2 = sin(deg2rad(angle)): the phasor is kept as
\* its phase, the trigonometric values are not evaluated.
ex(t, segment, angle) ==
    [card |-> "EX", I |-> <<dec(0), dec(t), dec(segment), dec(0)>>,
     V |-> [phase |-> angle]]

ldFieldsSwapped(t, segment, r, l) ==
    Card("LD", <<dec(0), dec(t), dec(segment), dec(segment)>>, <<sci(l), sci(r)>>)

ld(t, segment, r, l) ==
    LET I1 == 0
        I2 == t
        I3 == segment
        I4 == segment
        F1 == r
        F2 == l
    IN  Card("LD", <<dec(I1), dec(I2), dec(I3), dec(I4)>>, <<sci(F1), sci(F2)>>)

\* The parameters are overwritten by the constants before use.
rp(NTH, NPH) ==
    LET I1 == 0
        nth == 37
        nph == 73
        I4 == 1000
    IN  Card("RP", <<dec(I1), dec(nth), dec(nph), dec(I4)>>,
             <<sci(-90), sci(0), sci(5), sci(5)>>)

en == [card |-> "EN"]

(***************************************************************************)
(* Construction.  self.middle is not assigned by __init__: the attribute   *)
(* is absent (<<>>) until the first add assigns it (<<n>>).                *)
(* lastCall is the call made last with its positional arguments, ret what  *)
(* it returned or raised, loadCalls the loadAtMiddle calls made so far     *)
(* with the geometry record that was last when each was made.  An          *)
(* exception is not caught: it ends the script that drives the instance.   *)
(***************************************************************************)
Returned(kind) == [kind |-> kind]
Raised(exc) == [kind |-> "raise", exc |-> exc]
Running == ret.kind # "raise"

Init ==
    \E radius \in InitRadii, ground \in Grounds :
        /\ wires = <<>>
        /\ transforms = <<>>
        /\ wireRadius = radius
        /\ tag = 0
        /\ EX_tags = <<>>
        /\ EX_angles = <<>>
        /\ EX_segments = <<>>
        /\ LD_tags = <<>>
        /\ LD_segments = <<>>
        /\ LD_r = <<>>
        /\ LD_l = <<>>
        /\ gpflag = ground
        /\ transformBuffer = <<>>
        /\ middle = <<>>
        /\ lastCall = [op |-> "__init__", wireRadius |-> radius, ground |-> ground]
        /\ ret = Returned("self")
        /\ loadCalls = <<>>

(***************************************************************************)
(* flushTransformBuffer: the new values of transforms and transformBuffer. *)
(***************************************************************************)
flushKeepsBuffer ==
    [transforms |-> transforms \o transformBuffer,
     transformBuffer |-> transformBuffer]

flushTransformBuffer ==
    [transforms |-> transforms \o transformBuffer, transformBuffer |-> <<>>]

(***************************************************************************)
(* High-level geometry.                                                    *)
(***************************************************************************)
addWireTagPlusTwo(segments, pt1, pt2) ==
    /\ Running
    /\ tag < MaxTag
    /\ tag' = tag + 2
    /\ wires' = wires \o <<gw(tag', segments, pt1[1], pt1[2], pt1[3],
                              pt2[1], pt2[2], pt2[3], wireRadius)>>
    /\ transforms' = flushTransformBuffer.transforms
    /\ transformBuffer' = flushTransformBuffer.transformBuffer
    /\ middle' = <<Trunc(segments \div 2, 1) + 1>>
    /\ lastCall' = [op |-> "addWire", segments |-> segments, pt1 |-> pt1, pt2 |-> pt2]
    /\ ret' = Returned("self")
    /\ UNCHANGED <<wireRadius, EX_tags, EX_angles, EX_segments,
                   LD_tags, LD_segments, LD_r, LD_l, gpflag, loadCalls>>

\* segments is an int: segments/2 is Python 2 integer division.
addWire(segments, pt1, pt2) ==
    /\ Running
    /\ tag < MaxTag
    /\ tag' = tag + 1
    /\ wires' = wires \o <<gw(tag', segments, pt1[1], pt1[2], pt1[3],
                              pt2[1], pt2[2], pt2[3], wireRadius)>>
    /\ transforms' = flushTransformBuffer.transforms
    /\ transformBuffer' = flushTransformBuffer.transformBuffer
    /\ middle' = <<Trunc(segments \div 2, 1) + 1>>
    /\ lastCall' = [op |-> "addWire", segments |-> segments, pt1 |-> pt1, pt2 |-> pt2]
    /\ ret' = Returned("self")
    /\ UNCHANGED <<wireRadius, EX_tags, EX_angles, EX_segments,
                   LD_tags, LD_segments, LD_r, LD_l, gpflag, loadCalls>>

\* math.ceil(math.sqrt(d2) / dseg) for dseg > 0: the least n with n * dseg >= sqrt(d2).
CeilRootOver(d2, dseg) ==
    CHOOSE n \in 0..d2 :
        /\ (n * dseg) * (n * dseg) >= d2
        /\ \A k \in 0..(n - 1) : (k * dseg) * (k * dseg) < d2

addWireAutosegMiddleNoPlusOne(dseg, pt1, pt2) ==
    LET d2 == (pt1[1] - pt2[1]) * (pt1[1] - pt2[1])
              + (pt1[2] - pt2[2]) * (pt1[2] - pt2[2])
              + (pt1[3] - pt2[3]) * (pt1[3] - pt2[3])
        segments == CeilRootOver(d2, dseg)
    IN  /\ Running
        /\ tag < MaxTag
        /\ tag' = tag + 1
        /\ wires' = wires \o <<gw(tag', segments, pt1[1], pt1[2], pt1[3],
                                  pt2[1], pt2[2], pt2[3], wireRadius)>>
        /\ transforms' = flushTransformBuffer.transforms
        /\ transformBuffer' = flushTransformBuffer.transformBuffer
        /\ middle' = <<Trunc(segments, 2)>>
        /\ lastCall' = [op |-> "addWireAutoseg", dseg |-> dseg, pt1 |-> pt1, pt2 |-> pt2]
        /\ ret' = Returned("self")
        /\ UNCHANGED <<wireRadius, EX_tags, EX_angles, EX_segments,
                       LD_tags, LD_segments, LD_r, LD_l, gpflag, loadCalls>>

\* segments is the float math.ceil returns: segments/2 is a true division.
addWireAutoseg(dseg, pt1, pt2) ==
    LET d2 == (pt1[1] - pt2[1]) * (pt1[1] - pt2[1])
              + (pt1[2] - pt2[2]) * (pt1[2] - pt2[2])
              + (pt1[3] - pt2[3]) * (pt1[3] - pt2[3])
        segments == CeilRootOver(d2, dseg)
    IN  /\ Running
        /\ tag < MaxTag
        /\ tag' = tag + 1
        /\ wires' = wires \o <<gw(tag', segments, pt1[1], pt1[2], pt1[3],
                                  pt2[1], pt2[2], pt2[3], wireRadius)>>
        /\ transforms' = flushTransformBuffer.transforms
        /\ transformBuffer' = flushTransformBuffer.transformBuffer
        /\ middle' = <<Trunc(segments, 2) + 1>>
        /\ lastCall' = [op |-> "addWireAutoseg", dseg |-> dseg, pt1 |-> pt1, pt2 |-> pt2]
        /\ ret' = Returned("self")
        /\ UNCHANGED <<wireRadius, EX_tags, EX_angles, EX_segments,
                       LD_tags, LD_segments, LD_r, LD_l, gpflag, loadCalls>>

\* The four cards that roll back the translation and the rotation of an arc.
restoreTransformsRotationFirst(r, t, firstTag) ==
    <<gm(-r[1], 0, 0, 0, 0, 0, firstTag),
      gm(0, -r[2], 0, 0, 0, 0, firstTag),
      gm(0, 0, -r[3], 0, 0, 0, firstTag),
      gm(0, 0, 0, -t[1], -t[2], -t[3], firstTag)>>

restoreTransforms(r, t, firstTag) ==
    <<gm(0, 0, 0, -t[1], -t[2], -t[3], firstTag),
      gm(0, 0, -r[3], 0, 0, 0, firstTag),
      gm(0, -r[2], 0, 0, 0, 0, firstTag),
      gm(-r[1], 0, 0, 0, 0, 0, firstTag)>>

addArcFlushLast(segments, radius, start, end, rotate, translate) ==
    /\ Running
    /\ tag < MaxTag
    /\ tag' = tag + 1
    /\ wires' = wires \o <<ga(tag', segments, radius, start, end, wireRadius)>>
    /\ middle' = <<Trunc(segments \div 2, 1) + 1>>
    /\ transforms' = (transforms
                      \o <<gm(rotate[1], rotate[2], rotate[3],
                              translate[1], translate[2], translate[3], tag')>>)
                     \o transformBuffer
    /\ transformBuffer' = restoreTransforms(rotate, translate, tag' + 1)
    /\ lastCall' = [op |-> "addArc", segments |-> segments, radius |-> radius,
                    start |-> start, end |-> end,
                    rotate |-> rotate, translate |-> translate]
    /\ ret' = Returned("self")
    /\ UNCHANGED <<wireRadius, EX_tags, EX_angles, EX_segments,
                   LD_tags, LD_segments, LD_r, LD_l, gpflag, loadCalls>>

addArc(segments, radius, start, end, rotate, translate) ==
    /\ Running
    /\ tag < MaxTag
    /\ tag' = tag + 1
    /\ wires' = wires \o <<ga(tag', segments, radius, start, end, wireRadius)>>
    /\ middle' = <<Trunc(segments \div 2, 1) + 1>>
    /\ transforms' = flushTransformBuffer.transforms
                     \o <<gm(rotate[1], rotate[2], rotate[3],
                             translate[1], translate[2], translate[3], tag')>>
    /\ transformBuffer' = flushTransformBuffer.transformBuffer
                          \o restoreTransforms(rotate, translate, tag' + 1)
    /\ lastCall' = [op |-> "addArc", segments |-> segments, radius |-> radius,
                    start |-> start, end |-> end,
                    rotate |-> rotate, translate |-> translate]
    /\ ret' = Returned("self")
    /\ UNCHANGED <<wireRadius, EX_tags, EX_angles, EX_segments,
                   LD_tags, LD_segments, LD_r, LD_l, gpflag, loadCalls>>

(***************************************************************************)
(* Attachments.  self.EX_tags / self.LD_tags is appended to before         *)
(* self.middle is read: with the attribute absent the read raises          *)
(* AttributeError and leaves the first list one longer.                    *)
(***************************************************************************)
feedAtMiddle(angle) ==
    /\ Running
    /\ Len(EX_tags) < MaxEX
    /\ EX_tags' = Append(EX_tags, tag)
    /\ IF middle = <<>>
       THEN /\ ret' = Raised("AttributeError")
            /\ UNCHANGED <<EX_segments, EX_angles>>
       ELSE /\ EX_segments' = Append(EX_segments, middle[1])
            /\ EX_angles' = Append(EX_angles, angle)
            /\ ret' = Returned("None")
    /\ lastCall' = [op |-> "feedAtMiddle", angle |-> angle]
    /\ UNCHANGED <<wires, transforms, wireRadius, tag, LD_tags, LD_segments,
                   LD_r, LD_l, gpflag, transformBuffer, middle, loadCalls>>

\* def loadAtMiddle(self, l, r): the first positional argument is l.
loadAtMiddle(l, r) ==
    /\ Running
    /\ Len(LD_tags) < MaxLD
    /\ LD_tags' = Append(LD_tags, tag)
    /\ IF middle = <<>>
       THEN /\ ret' = Raised("AttributeError")
            /\ UNCHANGED <<LD_segments, LD_l, LD_r>>
       ELSE /\ LD_segments' = Append(LD_segments, middle[1])
            /\ LD_l' = Append(LD_l, l)
            /\ LD_r' = Append(LD_r, r)
            /\ ret' = Returned("None")
    /\ lastCall' = [op |-> "loadAtMiddle", first |-> l, second |-> r]
    /\ loadCalls' = Append(loadCalls,
                           [first |-> l, second |-> r,
                            element |-> IF wires = <<>> THEN <<>>
                                        ELSE wires[Len(wires)].I])
    /\ UNCHANGED <<wires, transforms, wireRadius, tag, EX_tags, EX_angles,
                   EX_segments, gpflag, transformBuffer, middle>>

setRadius(radius) ==
    /\ Running
    /\ wireRadius' = radius
    /\ lastCall' = [op |-> "setRadius", radius |-> radius]
    /\ ret' = Returned("None")
    /\ UNCHANGED <<wires, transforms, tag, EX_tags, EX_angles, EX_segments,
                   LD_tags, LD_segments, LD_r, LD_l, gpflag, transformBuffer,
                   middle, loadCalls>>

(***************************************************************************)
(* Rendering.                                                              *)
(***************************************************************************)
footerLoadsFirst(start, stepSize, stepCount, radpat) ==
    <<ge>>
    \o (IF gpflag # 0 THEN <<gn(2)>> ELSE <<>>)
    \o [i \in 1..Len(LD_tags) |-> ld(LD_tags[i], LD_segments[i], LD_r[i], LD_l[i])]
    \o [i \in 1..Len(EX_tags) |-> ex(EX_tags[i], EX_segments[i], EX_angles[i])]
    \o <<fr(start, stepSize, stepCount)>>
    \o <<IF radpat THEN rp(37, 73) ELSE rp(3, 3)>>
    \o <<en>>

footer(start, stepSize, stepCount, radpat) ==
    <<ge>>
    \o (IF gpflag # 0 THEN <<gn(2)>> ELSE <<>>)
    \o [i \in 1..Len(EX_tags) |-> ex(EX_tags[i], EX_segments[i], EX_angles[i])]
    \o [i \in 1..Len(LD_tags) |-> ld(LD_tags[i], LD_segments[i], LD_r[i], LD_l[i])]
    \o <<fr(start, stepSize, stepCount)>>
    \o <<IF radpat THEN rp(37, 73) ELSE rp(3, 3)>>
    \o <<en>>

getTextFlushing(start, stepSize, stepCount, radpat) ==
    /\ Running
    /\ transforms' = flushTransformBuffer.transforms
    /\ transformBuffer' = flushTransformBuffer.transformBuffer
    /\ ret' = [kind |-> "text",
               cards |-> wires \o transforms' \o footer(start, stepSize, stepCount, radpat)]
    /\ lastCall' = [op |-> "getText", start |-> start, stepSize |-> stepSize,
                    stepCount |-> stepCount, radpat |-> radpat]
    /\ UNCHANGED <<wires, wireRadius, tag, EX_tags, EX_angles, EX_segments,
                   LD_tags, LD_segments, LD_r, LD_l, gpflag, middle, loadCalls>>

getText(start, stepSize, stepCount, radpat) ==
    /\ Running
    /\ ret' = [kind |-> "text",
               cards |-> wires \o transforms \o footer(start, stepSize, stepCount, radpat)]
    /\ lastCall' = [op |-> "getText", start |-> start, stepSize |-> stepSize,
                    stepCount |-> stepCount, radpat |-> radpat]
    /\ UNCHANGED <<fields, loadCalls>>

Next ==
    \/ \E s \in WireSegments, e \in WireEnds : addWire(s, e[1], e[2])
    \/ \E d \in SegLengths, e \in AutosegEnds : addWireAutoseg(d, e[1], e[2])
    \/ \E a \in ArcArgs :
          addArc(a.segments, a.radius, a.start, a.end, a.rotate, a.translate)
    \/ \E angle \in Angles : feedAtMiddle(angle)
    \/ \E a \in LoadArgs : loadAtMiddle(a[1], a[2])
    \/ \E radius \in Radii : setRadius(radius)
    \/ \E f \in Sweeps, radpat \in BOOLEAN :
          getText(f.start, f.stepSize, f.stepCount, radpat)

Spec == Init /\ [][Next]_vars

(***************************************************************************)
(* Properties.                                                             *)
(***************************************************************************)
AddOps == {"addWire", "addWireAutoseg", "addArc"}
LastElement == wires[Len(wires)]
GM(rotX, rotY, rotZ, trX, trY, trZ, firstTag) ==
    [card |-> "GM", I |-> <<0, 0>>,
     F |-> <<rotX, rotY, rotZ, trX, trY, trZ, firstTag>>]

\* C1: the text getText returns is, in this order: the wire/arc records in
\* the order they were added, the committed GM records, one GE, one GN if and
\* only if the ground flag is set, the EX records in attachment order, the LD
\* records in attachment order, one FR, one RP, and EN as the last record.
C1_CardOrder ==
    ret.kind = "text" =>
        LET c == ret.cards
            nw == Len(wires)
            nt == Len(transforms)
            g == IF gpflag # 0 THEN 1 ELSE 0
            ne == Len(EX_tags)
            nl == Len(LD_tags)
            base == nw + nt + 1 + g
        IN  /\ Len(c) = base + ne + nl + 3
            /\ \A i \in 1..nw :
                  /\ c[i].card \in {"GW", "GA"}
                  /\ c[i] = wires[i]
                  /\ c[i].I[1] = i
            /\ \A i \in 1..nt :
                  /\ c[nw + i].card = "GM"
                  /\ c[nw + i] = transforms[i]
            /\ c[nw + nt + 1].card = "GE"
            /\ (g = 1 => c[nw + nt + 2].card = "GN")
            /\ Cardinality({i \in 1..Len(c) : c[i].card = "GN"}) = g
            /\ \A i \in 1..ne :
                  /\ c[base + i].card = "EX"
                  /\ c[base + i].I[2] = EX_tags[i]
                  /\ c[base + i].I[3] = EX_segments[i]
                  /\ c[base + i].V.phase = EX_angles[i]
            /\ \A i \in 1..nl :
                  /\ c[base + ne + i].card = "LD"
                  /\ c[base + ne + i].I[2] = LD_tags[i]
                  /\ c[base + ne + i].I[3] = LD_segments[i]
            /\ c[base + ne + nl + 1].card = "FR"
            /\ c[base + ne + nl + 1].I[2] = lastCall.stepCount
            /\ c[base + ne + nl + 2].card = "RP"
            /\ c[base + ne + nl + 3].card = "EN"

C1_Witness ==
    /\ ret.kind = "text"
    /\ gpflag # 0
    /\ Len(wires) >= 2
    /\ Len(transforms) >= 1
    /\ Len(EX_tags) = 2
    /\ EX_tags[1] # EX_tags[2]
    /\ Len(LD_tags) = 2
    /\ LD_tags[1] # LD_tags[2]

\* C2: a getText call changes no field of the model, and a getText call that
\* directly follows a getText call with the same arguments returns the same
\* text.
C2_GetTextPure ==
    [][lastCall'.op = "getText" =>
          /\ fields' = fields
          /\ loadCalls' = loadCalls
          /\ (IF lastCall.op = "getText" THEN lastCall' = lastCall ELSE FALSE)
                => ret' = ret]_vars

C2_Witness ==
    /\ ret.kind = "text"
    /\ transformBuffer # <<>>
    /\ Len(EX_tags) >= 1

\* C3: when an addArc call directly follows an addArc call, the first arc's
\* four staged restore-GM records are moved into transforms after the first
\* arc's apply-GM record and before the second arc's apply-GM record, which
\* references the second arc's tag: transforms then ends with
\* [first apply-GM, four restore-GMs, second apply-GM], and is exactly that
\* when the first arc was the first transform of the model.
C3_ArcAfterArc ==
    [][(lastCall.op = "addArc" /\ lastCall'.op = "addArc") =>
          LET n == Len(transforms)
              first == lastCall
              second == lastCall'
          IN  /\ Len(transformBuffer) = 4
              /\ Len(transforms') = n + 5
              /\ n >= 1
              /\ \A i \in 1..n : transforms'[i] = transforms[i]
              /\ transforms'[n] =
                    GM(first.rotate[1], first.rotate[2], first.rotate[3],
                       first.translate[1], first.translate[2], first.translate[3],
                       tag)
              /\ \A j \in 1..4 :
                    /\ transforms'[n + j] = transformBuffer[j]
                    /\ transforms'[n + j].F[7] = tag'
              /\ transforms'[n + 1].F[4] = -first.translate[1]
              /\ transforms'[n + 4].F[1] = -first.rotate[1]
              /\ transforms'[n + 5] =
                    GM(second.rotate[1], second.rotate[2], second.rotate[3],
                       second.translate[1], second.translate[2], second.translate[3],
                       tag')
              /\ tag' = tag + 1
              /\ (n = 1 => Len(transforms') = 6)]_vars

C3_Witness ==
    /\ lastCall.op = "addArc"
    /\ Len(wires) = 2
    /\ wires[1].card = "GA"
    /\ wires[2].card = "GA"
    /\ Len(transforms) = 6
    /\ transforms[2].F[7] = 2

\* C4: the tag counter starts at 0, each addWire, addWireAutoseg and addArc
\* call adds exactly 1 to it and no other call changes it; the k-th geometry
\* record carries tag k and the counter is the number of geometry records.
C4_TagCounter ==
    /\ tag = 0
    /\ [](/\ tag = Len(wires)
          /\ \A k \in 1..Len(wires) : wires[k].I[1] = k)
    /\ [][tag' = IF lastCall'.op \in AddOps THEN tag + 1 ELSE tag]_vars

C4_Witness ==
    /\ tag = 2
    /\ wires[1].card = "GW"
    /\ wires[2].card = "GA"
    /\ lastCall.op = "setRadius"
    /\ Len(LD_tags) = 1

\* C5: once an element has been added, feedAtMiddle and loadAtMiddle append
\* an attachment whose tag is the tag of the last geometry record and whose
\* segment is floor(segments / 2) + 1 for that record's segment count; no
\* call changes an attachment that is already recorded.
C5_AttachAtMiddle ==
    [][/\ (wires # <<>> /\ lastCall'.op = "feedAtMiddle") =>
             /\ EX_tags' = Append(EX_tags, LastElement.I[1])
             /\ EX_segments' = Append(EX_segments, (LastElement.I[2] \div 2) + 1)
             /\ EX_angles' = Append(EX_angles, lastCall'.angle)
       /\ (wires # <<>> /\ lastCall'.op = "loadAtMiddle") =>
             /\ LD_tags' = Append(LD_tags, LastElement.I[1])
             /\ LD_segments' = Append(LD_segments, (LastElement.I[2] \div 2) + 1)
       /\ Len(EX_tags') >= Len(EX_tags)
       /\ Len(EX_segments') >= Len(EX_segments)
       /\ Len(LD_tags') >= Len(LD_tags)
       /\ Len(LD_segments') >= Len(LD_segments)
       /\ \A i \in 1..Len(EX_tags) : EX_tags'[i] = EX_tags[i]
       /\ \A i \in 1..Len(EX_segments) : EX_segments'[i] = EX_segments[i]
       /\ \A i \in 1..Len(LD_tags) : LD_tags'[i] = LD_tags[i]
       /\ \A i \in 1..Len(LD_segments) : LD_segments'[i] = LD_segments[i]]_vars

C5_Witness ==
    /\ Len(wires) = 2
    /\ wires[2].I[2] = 7
    /\ EX_tags = <<2>>
    /\ EX_segments = <<4>>
    /\ lastCall.op = "setRadius"

\* C6 as stated: after loadAtMiddle(first, second), every text getText
\* returns holds an LD record for the last element's tag and midpoint segment
\* (in both segment fields) whose first float field is the first argument and
\* whose second float field is the second argument, each as sci writes it.
C6_FirstArgumentFirst ==
    ret.kind = "text" =>
        \A k \in 1..Len(loadCalls) :
            \E i \in 1..Len(ret.cards) :
                LET c == ret.cards[i]
                    mid == (loadCalls[k].element[2] \div 2) + 1
                IN  /\ c.card = "LD"
                    /\ c.I[2] = loadCalls[k].element[1]
                    /\ c.I[3] = mid
                    /\ c.I[4] = mid
                    /\ c.F[1] = sci(loadCalls[k].first)
                    /\ c.F[2] = sci(loadCalls[k].second)

\* C6 as amended: the first float field of that LD record is the second
\* positional argument (parameter r) and the second float field is the first
\* positional argument (parameter l), each as sci writes it.
C6_SecondArgumentFirst ==
    ret.kind = "text" =>
        \A k \in 1..Len(loadCalls) :
            \E i \in 1..Len(ret.cards) :
                LET c == ret.cards[i]
                    mid == (loadCalls[k].element[2] \div 2) + 1
                IN  /\ c.card = "LD"
                    /\ c.I[2] = loadCalls[k].element[1]
                    /\ c.I[3] = mid
                    /\ c.I[4] = mid
                    /\ c.F[1] = sci(loadCalls[k].second)
                    /\ c.F[2] = sci(loadCalls[k].first)

C6_Witness ==
    /\ ret.kind = "text"
    /\ Len(loadCalls) >= 1
    /\ loadCalls[1].first # loadCalls[1].second
    /\ Len(wires) > loadCalls[1].element[1]

\* C7: the RP record of the text requests NTH=37, NPH=73 when getText was
\* called with radpat true and NTH=3, NPH=3 when it was called with radpat
\* false.
C7_PatternGrid ==
    ret.kind = "text" =>
        LET c == ret.cards[Len(ret.cards) - 1]
        IN  /\ c.card = "RP"
            /\ c.I[2] = (IF lastCall.radpat THEN 37 ELSE 3)
            /\ c.I[3] = (IF lastCall.radpat THEN 73 ELSE 3)

\* C8: no call ends in an error, whatever calls were made before it.
C8_NoCallRaises == ret.kind # "raise"

\* C9: every committed GM record, and every GM record of a rendered text,
\* references a tag between 1 and the tag counter; the staged records all
\* reference tag + 1 and the staging buffer is non-empty exactly when the
\* last element added is an arc; transforms changes only in an add call,
\* which moves the whole buffer into it and leaves no moved record staged.
C9_NoDanglingReference ==
    /\ [](/\ \A i \in 1..Len(transforms) :
                /\ transforms[i].card = "GM"
                /\ transforms[i].F[7] \in 1..tag
          /\ \A j \in 1..Len(transformBuffer) :
                /\ transformBuffer[j].card = "GM"
                /\ transformBuffer[j].F[7] = tag + 1
          /\ (transformBuffer # <<>>) <=> (wires # <<>> /\ LastElement.card = "GA")
          /\ ret.kind = "text" =>
                \A i \in 1..Len(ret.cards) :
                    ret.cards[i].card = "GM" => ret.cards[i].F[7] \in 1..tag)
    /\ [][/\ transforms' # transforms => lastCall'.op \in AddOps
          /\ lastCall'.op \in AddOps =>
                /\ Len(transforms') >= Len(transforms) + Len(transformBuffer)
                /\ SubSeq(transforms', 1, Len(transforms) + Len(transformBuffer))
                      = transforms \o transformBuffer
                /\ \A j \in 1..Len(transformBuffer') :
                      transformBuffer'[j].F[7] = tag' + 1]_vars

C9_Witness ==
    /\ Len(wires) = 2
    /\ wires[1].card = "GA"
    /\ wires[2].card = "GW"
    /\ Len(transforms) = 5
    /\ transformBuffer = <<>>
    /\ ret.kind = "text"

\* C10: an addArc call that allocates tag k appends to transforms, after the
\* flushed records, exactly one GM record (rx,ry,rz,tx,ty,tz) referencing k,
\* and leaves staged exactly four GM records referencing k + 1: undo
\* translation, undo Z-rotation, undo Y-rotation, undo X-rotation.
C10_ArcTransforms ==
    [][lastCall'.op = "addArc" =>
          LET r == lastCall'.rotate
              t == lastCall'.translate
              k == tag'
          IN  /\ k = tag + 1
              /\ wires'[Len(wires')].card = "GA"
              /\ wires'[Len(wires')].I[1] = k
              /\ Len(transforms') = Len(transforms) + Len(transformBuffer) + 1
              /\ transforms'[Len(transforms')] = GM(r[1], r[2], r[3], t[1], t[2], t[3], k)
              /\ transformBuffer' =
                    <<GM(0, 0, 0, -t[1], -t[2], -t[3], k + 1),
                      GM(0, 0, -r[3], 0, 0, 0, k + 1),
                      GM(0, -r[2], 0, 0, 0, 0, k + 1),
                      GM(-r[1], 0, 0, 0, 0, 0, k + 1)>>]_vars

C10_Witness ==
    /\ lastCall.op = "addArc"
    /\ Len(transformBuffer) = 4
    /\ transformBuffer[1].F[4] = -1
    /\ transformBuffer[4].F[1] = -10
    /\ wires[1].card = "GW"

====
